---- MODULE Spec2Model ----
(***************************************************************************)
(* ProjectPilot backend: an Express relay (src/server.js) with a chat      *)
(* route, an optional text-to-speech step and a CSV schedule upload.       *)
(* The repository also holds an older copy, src/unnamed/part_000; its      *)
(* line 16 reads "]filter(Boolean);" (the "." is missing), a SyntaxError,  *)
(* so that file never starts a server: the "legacy" deployment below has   *)
(* no behaviour beyond failing to load.                                    *)
(*                                                                         *)
(* Node runs one handler at a time but interleaves requests at every       *)
(* await.  The model keeps two requests in flight, one per lane; each step *)
(* of a lane is the code that runs between two awaits of its handler.      *)
(*                                                                         *)
(* Strings are sequences of one-character strings, so that trim(),         *)
(* includes(), replace(), join() and Object.keys() are computed, not       *)
(* assumed.  A few long fixed texts (prompts, canned replies, origins'     *)
(* parts) are kept as single tokens of such a sequence.                    *)
(***************************************************************************)
EXTENDS Integers, Sequences, FiniteSets, TLC

VARIABLES
    variant,              \* which file is deployed: "server" | "legacy"
    OPENAI_API_KEY,       \* server.js:16
    ELEVENLABS_API_KEY,   \* server.js:17 (already trimmed)
    ELEVENLABS_VOICE_ID,  \* server.js:18 (already trimmed)
    lanes                 \* the requests in flight, one record per lane

vars == << variant, OPENAI_API_KEY, ELEVENLABS_API_KEY, ELEVENLABS_VOICE_ID,
           lanes >>

config == << variant, OPENAI_API_KEY, ELEVENLABS_API_KEY, ELEVENLABS_VOICE_ID >>

----------------------------------------------------------------------------
(* Bounds of the model *)

\* longest chat message drawn, in characters
MaxMsgLen == 3
\* widest CSV drawn, in columns
MaxCols == 3
\* CSVs of 0..SmallRows data rows are drawn
SmallRows == 2
\* CSVs of MAX_ROWS-1 .. MAX_ROWS+OverRows data rows are drawn
OverRows == 2

----------------------------------------------------------------------------
(* JavaScript values and strings *)

Undefined == [type |-> "undefined", val |-> << >>]
Null == [type |-> "null", val |-> << >>]
NotAString == [type |-> "number", val |-> << >>]
Str(s) == [type |-> "string", val |-> s]

\* JavaScript truthiness of a value that is undefined, null or a string
Truthy(v) == v.type = "string" /\ v.val # << >>

\* the characters String.prototype.trim strips that the model draws
IsWhitespace(c) == c \in {" ", "\n", "\r", "\t", "\f"}

RECURSIVE trimStart(_)
trimStart(s) ==
    IF s # << >> /\ IsWhitespace(Head(s)) THEN trimStart(Tail(s)) ELSE s

RECURSIVE trimEnd(_)
trimEnd(s) ==
    IF s # << >> /\ IsWhitespace(s[Len(s)])
    THEN trimEnd(SubSeq(s, 1, Len(s) - 1))
    ELSE s

\* mutant of trim: only the leading whitespace goes
trimLeadingOnly(s) == trimStart(s)

\* String.prototype.trim
trim(s) == trimEnd(trimStart(s))

\* Array.prototype.join of a sequence of strings (halving keeps the
\* evaluation shallow for long arrays; the result is the left-to-right join)
RECURSIVE join(_, _)
join(parts, sep) ==
    IF parts = << >> THEN << >>
    ELSE IF Len(parts) = 1 THEN parts[1]
    ELSE LET half == Len(parts) \div 2
         IN  join(SubSeq(parts, 1, half), sep) \o sep
             \o join(SubSeq(parts, half + 1, Len(parts)), sep)

\* all strings over alphabet A of length at most n
RECURSIVE StringsUpTo(_, _)
StringsUpTo(A, n) ==
    IF n = 0 THEN { << >> }
    ELSE LET shorter == StringsUpTo(A, n - 1)
         IN  shorter \cup { Append(s, c) : s \in shorter, c \in A }

----------------------------------------------------------------------------
(* Process configuration, read once at start-up *)

\* what an environment variable may hold: unset, blank, or a padded value
EnvValues == { Undefined, Str(<< " " >>), Str(<< " ", "k", " " >>) }

\* (process.env.X || "").trim()
EnvTrimmed(v) == Str(trim(IF Truthy(v) THEN v.val ELSE << >>))

Variants == { "server", "legacy" }

\* whether the deployed file parses and starts its server: server.js does;
\* part_000 stops at "]filter(Boolean);" with a SyntaxError before any of its
\* statements runs, so it has no allow-list, no routes and no listener
Loaded == variant = "server"

\* Allowed domains for CORS
ALLOWED_ORIGINS ==
    << << "https://", "projectpilot", ".ai" >>,
       << "https://", "www.", "projectpilot", ".ai" >>,
       << "https://", "projectpilot", "-frontend.onrender.com" >>,
       << "https://", "renaeliving", ".wixsite.com" >>,
       << "https://", "renaeliving", "-wixsite-com", ".filesusr.com" >>,
       << "https://", "projectpilot", "-ai", ".filesusr.com" >> >>

\* ALLOWED_ORIGINS.includes(origin)
OriginIncluded(origin) ==
    \E i \in 1..Len(ALLOWED_ORIGINS) : ALLOWED_ORIGINS[i] = origin

\* mutant of OriginCallback: an origin that begins with an allowed one passes
OriginCallbackByPrefix(origin) ==
    IF ~Truthy(origin) THEN TRUE
    ELSE \E i \in 1..Len(ALLOWED_ORIGINS) :
            /\ Len(ALLOWED_ORIGINS[i]) <= Len(origin.val)
            /\ SubSeq(origin.val, 1, Len(ALLOWED_ORIGINS[i])) = ALLOWED_ORIGINS[i]

\* the cors origin callback: TRUE = cb(null, true), FALSE = cb(new Error(..))
OriginCallback(origin) ==
    IF ~Truthy(origin) THEN TRUE
    ELSE OriginIncluded(origin.val)

----------------------------------------------------------------------------
(* Requests and responses *)

Routes == { "GET /", "POST /api/chat", "POST /api/upload-schedule" }

\* Origin headers drawn: none, empty, allow-listed, look-alikes, foreign
OriginInputs ==
    { Undefined,
      Str(<< >>),
      Str(<< "https://", "projectpilot", ".ai" >>),
      Str(<< "https://", "www-", "projectpilot", "-ai", ".filesusr.com" >>),
      Str(<< "https://", "projectpilot", ".ai", ".evil.example" >>),
      Str(<< "https://", "projectpilot" >>),
      Str(<< "https://", "evil.example" >>) }

NoBody == [present |-> FALSE, message |-> Undefined, text |-> Undefined]
NoFile == [present |-> FALSE, size |-> "none", parses |-> FALSE,
           ncols |-> 0, nrows |-> 0, hpat |-> 0]

MessageChars == { "h", " ", "\n" }

FieldValues ==
    { Undefined, NotAString } \cup { Str(s) : s \in StringsUpTo(MessageChars, MaxMsgLen) }

\* JSON bodies a client may send to /api/chat
BodyInputs ==
    { NoBody }
    \cup { [present |-> TRUE, message |-> m, text |-> Undefined] : m \in FieldValues }
    \cup { [present |-> TRUE, message |-> Undefined, text |-> t] : t \in FieldValues }

NoRes == [sent |-> FALSE, status |-> 0, error |-> "", detail |-> Undefined,
          reply |-> Undefined, audioBase64 |-> Undefined,
          analysis |-> Undefined, text |-> ""]

\* res.status(status).json({ error, detail })
ErrorRes(status, error, detail) ==
    [NoRes EXCEPT !.sent = TRUE, !.status = status, !.error = error,
                  !.detail = detail]

\* res.json({ reply, audioBase64 }), status 200
ChatRes(reply, audio) ==
    [NoRes EXCEPT !.sent = TRUE, !.status = 200, !.reply = Str(reply),
                  !.audioBase64 = audio]

\* res.json({ analysis }), status 200
AnalysisRes(a) ==
    [NoRes EXCEPT !.sent = TRUE, !.status = 200, !.analysis = Str(a)]

\* Express's default handling of next(err): status 500, no route handler
MiddlewareErrorRes(what) ==
    [NoRes EXCEPT !.sent = TRUE, !.status = 500, !.error = what]

\* the catch at the end of a handler
ServerErrorRes == ErrorRes(500, "Server error", Str(<< "err.message" >>))

----------------------------------------------------------------------------
(* Outcomes of the outbound calls (node-fetch) *)

\* no outbound call has settled
NoOutcome == [kind |-> "none", ok |-> FALSE, read |-> FALSE, readable |-> FALSE,
              text |-> << >>, content |-> Undefined, bytes |-> << >>]

\* fetch() rejected: no response at all
FetchRejected == [NoOutcome EXCEPT !.kind = "reject"]

\* fetch() resolved with a response whose body has not been read; ok is the
\* 2xx flag
FetchResponse(ok) == [NoOutcome EXCEPT !.kind = "response", !.ok = ok]

\* how an awaited fetch() may settle
FetchSettlements == { FetchRejected, FetchResponse(TRUE), FetchResponse(FALSE) }

\* reading and decoding the body (text(), json(), arrayBuffer()) rejected;
\* text is what the upstream had sent, which the handler never gets to see
BodyLost(text) == [readable |-> FALSE, text |-> text, content |-> Undefined,
                   bytes |-> << >>]

\* the body was read: text is what text() resolves to, content is
\* data?.choices?.[0]?.message?.content of what json() resolves to, bytes is
\* what arrayBuffer() resolves to
BodyRead(text, content, bytes) ==
    [readable |-> TRUE, text |-> text, content |-> content, bytes |-> bytes]

\* the settled response with its body read (or the read having failed)
WithBody(outcome, body) ==
    [outcome EXCEPT !.read = TRUE, !.readable = body.readable,
                    !.text = body.text, !.content = body.content,
                    !.bytes = body.bytes]

UpstreamErrorBody == << "{", "e", "r", "r", "}" >>

\* data?.choices?.[0]?.message?.content of the decoded body: absent, null,
\* a value that is not a string, blank, or a padded text
ContentInputs ==
    { Undefined, Null, NotAString, Str(<< " " >>), Str(<< " ", "o", "k", "\n" >>) }

\* bodies of a completion response, by its ok flag
CompletionBodies(ok) ==
    IF ok
    THEN { BodyLost(<< >>) } \cup { BodyRead(<< >>, c, << >>) : c \in ContentInputs }
    ELSE { BodyLost(UpstreamErrorBody),
           BodyRead(UpstreamErrorBody, Undefined, << >>) }

AudioInputs == { << >>, << 77 >>, << 255, 216 >>, << 73, 68, 51 >> }

\* bodies of a successful synthesis response
TtsBodies ==
    { BodyLost(<< >>) } \cup { BodyRead(<< >>, Undefined, b) : b \in AudioInputs }

Base64Alphabet ==
    << "A", "B", "C", "D", "E", "F", "G", "H", "I", "J", "K", "L", "M",
       "N", "O", "P", "Q", "R", "S", "T", "U", "V", "W", "X", "Y", "Z",
       "a", "b", "c", "d", "e", "f", "g", "h", "i", "j", "k", "l", "m",
       "n", "o", "p", "q", "r", "s", "t", "u", "v", "w", "x", "y", "z",
       "0", "1", "2", "3", "4", "5", "6", "7", "8", "9", "+", "/" >>

Sextet(n) == Base64Alphabet[n + 1]

\* Buffer.prototype.toString("base64")
RECURSIVE toBase64(_)
toBase64(b) ==
    IF b = << >> THEN << >>
    ELSE IF Len(b) = 1 THEN
        << Sextet(b[1] \div 4), Sextet((b[1] % 4) * 16), "=", "=" >>
    ELSE IF Len(b) = 2 THEN
        << Sextet(b[1] \div 4), Sextet((b[1] % 4) * 16 + b[2] \div 16),
           Sextet((b[2] % 16) * 4), "=" >>
    ELSE
        << Sextet(b[1] \div 4), Sextet((b[1] % 4) * 16 + b[2] \div 16),
           Sextet((b[2] % 16) * 4 + b[3] \div 64), Sextet(b[3] % 64) >>
        \o toBase64(SubSeq(b, 4, Len(b)))
----------------------------------------------------------------------------
(* Start-up, the requests in flight and the middleware chain *)

OpenAiKeyValues == { Undefined, Str(<< >>), Str(<< "s", "k" >>) }

NoReq == [route |-> "", origin |-> Undefined, body |-> NoBody, file |-> NoFile]

NoSched == [headers |-> << >>, rows |-> << >>, compactCsv |-> << >>]

\* one request: its position in the middleware chain or in its handler (pc),
\* the request as sent (req), the handler's locals (message, reply, sched)
\* and a log of what was done for it (the other fields)
IdleRequest ==
    [pc |-> "idle",
     req |-> NoReq,
     handlerRan |-> "none",
     message |-> << >>,
     reply |-> << >>,
     completionCalls |-> << >>,
     ttsCalls |-> << >>,
     ttsOutcome |-> "none",
     sched |-> NoSched,
     corsResult |-> "pending",
     completionResult |-> NoOutcome,
     res |-> NoRes]

\* the requests the model keeps in flight at once
Lanes == { "first", "second" }

\* what each lane draws: the first every input of the model, the second a
\* chat request without Origin header and without body
RoutesOf(lane) == IF lane = "first" THEN Routes ELSE { "POST /api/chat" }
OriginsOf(lane) == IF lane = "first" THEN OriginInputs ELSE { Undefined }
BodiesOf(lane) == IF lane = "first" THEN BodyInputs ELSE { NoBody }

Init ==
    /\ variant \in Variants
    /\ OPENAI_API_KEY \in OpenAiKeyValues
    /\ \E k \in EnvValues : ELEVENLABS_API_KEY = EnvTrimmed(k)
    /\ \E v \in EnvValues : ELEVENLABS_VOICE_ID = EnvTrimmed(v)
    /\ lanes = [lane \in Lanes |-> IdleRequest]

\* one lane moves, the other requests and the configuration stay
Put(lane, r) ==
    /\ lanes' = [lanes EXCEPT ![lane] = r]
    /\ UNCHANGED config

\* a response is sent and the handler returns: its locals are gone
Answer(r, response) ==
    [r EXCEPT !.res = response, !.pc = "done", !.message = << >>,
              !.reply = << >>, !.sched = NoSched]

\* a handler's catch (err): status 500 "Server error"
Caught(r) == Answer(r, ServerErrorRes)

\* a request arrives at the listening server; nothing of it is processed yet
Receive(lane, route, origin) ==
    /\ Loaded
    /\ lanes[lane].pc = "idle"
    /\ Put(lane, [IdleRequest EXCEPT !.pc = "cors",
                      !.req = [NoReq EXCEPT !.route = route, !.origin = origin]])

\* app.use(cors({ origin: ... })): next() or next(err)
CorsMiddleware(r) ==
    IF OriginCallback(r.req.origin)
    THEN [r EXCEPT !.corsResult = "accepted", !.pc = "json"]
    ELSE Answer([r EXCEPT !.corsResult = "rejected"],
                MiddlewareErrorRes("CORS blocked: "))

Cors(lane) ==
    /\ lanes[lane].pc = "cors"
    /\ Put(lane, CorsMiddleware(lanes[lane]))

\* app.use(express.json()): once the body has arrived, req.body is the JSON
\* object the client sent
JsonBody(lane, sent) ==
    /\ lanes[lane].pc = "json"
    /\ sent \in (IF lanes[lane].req.route = "POST /api/chat"
                 THEN BodiesOf(lane) ELSE { NoBody })
    /\ Put(lane, [lanes[lane] EXCEPT !.req.body = sent, !.pc = "route"])

\* app.get("/")
HealthCheck(lane) ==
    /\ lanes[lane].pc = "route"
    /\ lanes[lane].req.route = "GET /"
    /\ Put(lane, Answer([lanes[lane] EXCEPT !.handlerRan = "health"],
                        [NoRes EXCEPT !.sent = TRUE, !.status = 200,
                                      !.text = "ProjectPilot backend is running."]))

\* the response is out; the lane is free for the next request
NextRequest(lane) ==
    /\ lanes[lane].pc = "done"
    /\ Put(lane, IdleRequest)

----------------------------------------------------------------------------
(* POST /api/chat *)

ChatPrompt == << "You are Aero, an expert project management coach. ..." >>

Greeting == << "Hi, I'm Aero! Tell me about your project." >>
ReplyFallback == << "I'm not sure how to respond to that." >>

\* req.body?.message
BodyMessage(body) == IF body.present THEN body.message ELSE Undefined

\* mutant of ServerMessage: the trim() is forgotten
ServerMessageUntrimmed(body) ==
    IF BodyMessage(body).type = "string" THEN BodyMessage(body).val
    ELSE << >>

\* message = "" unless req.body?.message is a string, then its trim()
ServerMessage(body) ==
    IF BodyMessage(body).type = "string" THEN trim(BodyMessage(body).val)
    ELSE << >>

\* the body of the request to /v1/chat/completions
CompletionRequest(systemPrompt, userContent, temperature) ==
    [model |-> "gpt-4.1-mini",
     temperature |-> temperature,
     messages |-> << [role |-> "system", content |-> systemPrompt],
                     [role |-> "user", content |-> userContent] >>]

\* data?.choices?.[0]?.message?.content?.trim() || fallback: ?. stops at
\* undefined and null only, so any other value that is not a string has no
\* trim method and the call throws a TypeError
ReplyOf(content, fallback) ==
    IF content.type \in { "undefined", "null" }
    THEN [threw |-> FALSE, value |-> fallback]
    ELSE IF content.type # "string"
    THEN [threw |-> TRUE, value |-> << >>]
    ELSE IF trim(content.val) = << >>
    THEN [threw |-> FALSE, value |-> fallback]
    ELSE [threw |-> FALSE, value |-> trim(content.val)]

\* mutant of SynthesisConfigured: || where && is meant
SynthesisConfiguredEither ==
    Truthy(ELEVENLABS_API_KEY) \/ Truthy(ELEVENLABS_VOICE_ID)

\* if (ELEVENLABS_API_KEY && ELEVENLABS_VOICE_ID)
SynthesisConfigured ==
    Truthy(ELEVENLABS_API_KEY) /\ Truthy(ELEVENLABS_VOICE_ID)

\* the request to /v1/text-to-speech/${ELEVENLABS_VOICE_ID}
TtsRequest(text) ==
    [voice |-> ELEVENLABS_VOICE_ID.val, key |-> ELEVENLABS_API_KEY.val,
     text |-> text, model_id |-> "eleven_multilingual_v2"]

\* the handler from its start to its first await (the completion fetch)
ChatHandler(r) ==
    LET started == [r EXCEPT !.handlerRan = "chat"]
        msg == ServerMessage(r.req.body)
    IN  IF ~Truthy(OPENAI_API_KEY)
        THEN Answer(started, ErrorRes(500, "Missing OPENAI_API_KEY", Undefined))
        ELSE IF msg = << >>
        THEN Answer([started EXCEPT !.message = msg], ChatRes(Greeting, Null))
        ELSE [started EXCEPT
                 !.message = msg,
                 !.completionCalls =
                     Append(@, CompletionRequest(ChatPrompt, msg, "0.4")),
                 !.pc = "chatCompletion"]

Chat(lane) ==
    /\ lanes[lane].pc = "route"
    /\ lanes[lane].req.route = "POST /api/chat"
    /\ Put(lane, ChatHandler(lanes[lane]))

\* `await fetch(...)` of the completion call settles: a rejection goes to the
\* handler's catch, a response leads to the await of its body (text() when
\* not ok, json() when ok)
AfterCompletionFetch(r, outcome) ==
    IF outcome.kind = "reject"
    THEN Caught([r EXCEPT !.completionResult = outcome])
    ELSE [r EXCEPT !.completionResult = outcome, !.pc = "chatCompletionBody"]

ChatCompletionSettles(lane, outcome) ==
    /\ lanes[lane].pc = "chatCompletion"
    /\ Put(lane, AfterCompletionFetch(lanes[lane], outcome))

\* the reply is known: issue the synthesis call when configured, else answer
AfterReply(r, reply) ==
    IF SynthesisConfigured
    THEN [r EXCEPT !.reply = reply,
                   !.ttsCalls = Append(@, TtsRequest(reply)),
                   !.pc = "chatTts"]
    ELSE Answer([r EXCEPT !.reply = reply], ChatRes(reply, Null))

\* mutant of AfterCompletionBody: the `return` of the !aiResponse.ok branch
\* is missing, so the handler goes on to the reply and the synthesis
AfterCompletionBodyNoAbort(r, body) ==
    LET seen == [r EXCEPT !.completionResult = WithBody(@, body)]
        rep == ReplyOf(body.content, ReplyFallback)
    IN  IF ~body.readable THEN Caught(seen)
        ELSE IF rep.threw THEN Caught(seen)
        ELSE AfterReply(seen, rep.value)

\* the awaited body of the completion response settles: lines 98-100 for a
\* response that is not ok, lines 103-132 for one that is, up to the next
\* await or the response
AfterCompletionBody(r, body) ==
    LET seen == [r EXCEPT !.completionResult = WithBody(@, body)]
        rep == ReplyOf(body.content, ReplyFallback)
    IN  IF ~body.readable THEN Caught(seen)
        ELSE IF ~r.completionResult.ok
        THEN Answer(seen, ErrorRes(500, "OpenAI API failed", Str(body.text)))
        ELSE IF rep.threw THEN Caught(seen)
        ELSE AfterReply(seen, rep.value)

ChatCompletionBody(lane, body) ==
    /\ lanes[lane].pc = "chatCompletionBody"
    /\ body \in CompletionBodies(lanes[lane].completionResult.ok)
    /\ Put(lane, AfterCompletionBody(lanes[lane], body))

\* `await fetch(...)` of the synthesis call settles: a rejection is caught by
\* the inner catch, a response that is not ok skips the if; both answer with
\* audioBase64 = null.  An ok response leads to the await of arrayBuffer()
AfterTtsFetch(r, outcome) ==
    IF outcome.kind = "reject"
    THEN Answer([r EXCEPT !.ttsOutcome = "fetch_threw"], ChatRes(r.reply, Null))
    ELSE IF ~outcome.ok
    THEN Answer([r EXCEPT !.ttsOutcome = "not_ok"], ChatRes(r.reply, Null))
    ELSE [r EXCEPT !.ttsOutcome = "reading", !.pc = "chatTtsBody"]

ChatTtsSettles(lane, outcome) ==
    /\ lanes[lane].pc = "chatTts"
    /\ Put(lane, AfterTtsFetch(lanes[lane], outcome))

\* mutant of AfterTtsBody: no try/catch around the synthesis, so a failed
\* read reaches the handler's catch
AfterTtsBodyUncaught(r, body) ==
    IF ~body.readable
    THEN Caught([r EXCEPT !.ttsOutcome = "body_threw"])
    ELSE Answer([r EXCEPT !.ttsOutcome = "ok"],
                ChatRes(r.reply, Str(toBase64(body.bytes))))

\* `await ttsRes.arrayBuffer()` settles: the bytes become audioBase64, a
\* rejection is caught by the inner catch; then res.json({ reply, audioBase64 })
AfterTtsBody(r, body) ==
    IF ~body.readable
    THEN Answer([r EXCEPT !.ttsOutcome = "body_threw"], ChatRes(r.reply, Null))
    ELSE Answer([r EXCEPT !.ttsOutcome = "ok"],
                ChatRes(r.reply, Str(toBase64(body.bytes))))

ChatTtsBody(lane, body) ==
    /\ lanes[lane].pc = "chatTtsBody"
    /\ Put(lane, AfterTtsBody(lanes[lane], body))

----------------------------------------------------------------------------
(* POST /api/upload-schedule *)

\* Limit rows sent to OpenAI
MAX_ROWS == 120

Min(a, b) == IF a < b THEN a ELSE b

DigitChars == << "0", "1", "2", "3", "4", "5", "6", "7", "8", "9" >>

\* the decimal numeral of n >= 0
RECURSIVE Digits(_)
Digits(n) ==
    IF n < 10 THEN << DigitChars[n + 1] >>
    ELSE Append(Digits(n \div 10), DigitChars[(n % 10) + 1])

\* column names drawn; a quoted CSV header may hold a comma or a line break,
\* and a column may be named by a number
HeaderName(hpat, j) ==
    IF j = 1 THEN (IF hpat = 2 THEN << "i", "\n", "d" >> ELSE << "i", "d" >>)
    ELSE IF j = 2 THEN (IF hpat = 1 THEN << "a", ",", "b" >>
                        ELSE IF hpat = 3 THEN << "1", "0" >>
                        ELSE << "n" >>)
    ELSE IF j = 3 /\ hpat = 3 THEN << "9" >>
    ELSE << "c" >> \o Digits(j)

HeaderPatterns == 0..3

\* cell values drawn; a quoted CSV cell may hold commas and line breaks
CellPool ==
    << << "a", ",", "b" >>,
       << >>,
       << "a", "\n", "b" >>,
       << " " >>,
       << "\r", "\n", "a" >>,
       << ",", "\n", "\n", "," >>,
       << "a", "\n", "\r", "\n" >>,
       << ";", "\r", ",", "\n", "a" >> >>

\* the value of column j in data row i: column 1 numbers the rows
CellValue(i, j) ==
    IF j = 1 THEN Digits(i)
    ELSE CellPool[((i + j) % Len(CellPool)) + 1]

\* what parse(csvText, { columns: true, skip_empty_lines: true }) returns for
\* a file that parses: one object per data row, its properties created in
\* the order of the header row
Records(file) ==
    [i \in 1..file.nrows |->
        [j \in 1..file.ncols |->
            [k |-> HeaderName(file.hpat, j), v |-> CellValue(i, j)]]]

RowCounts == (0..SmallRows) \cup ((MAX_ROWS - 1)..(MAX_ROWS + OverRows))

\* what the client attaches as "schedule": nothing, a file over the size
\* limit, a file that does not parse, or a CSV that parses
FileInputs ==
    { NoFile,
      [NoFile EXCEPT !.present = TRUE, !.size = "too_large"],
      [NoFile EXCEPT !.present = TRUE, !.size = "ok"] }
    \cup { [present |-> TRUE, size |-> "ok", parses |-> TRUE, ncols |-> c,
            nrows |-> n, hpat |-> h] :
           c \in 1..MaxCols, n \in RowCounts, h \in HeaderPatterns }

\* mutant of slice: off by one, limit + 1 rows are kept
sliceOneMore(records, limit) == SubSeq(records, 1, Min(Len(records), limit + 1))

\* records.slice(0, MAX_ROWS)
slice(records, limit) == SubSeq(records, 1, Min(Len(records), limit))

IsDigit(c) == \E d \in 1..Len(DigitChars) : DigitChars[d] = c

\* the digit a character stands for
DigitOf(c) == (CHOOSE d \in 1..Len(DigitChars) : DigitChars[d] = c) - 1

\* a < b for two decimal numerals without leading zeros: the shorter is the
\* smaller, and of two of equal length the one smaller at the first
\* position where they differ
NumeralLess(a, b) ==
    \/ Len(a) < Len(b)
    \/ /\ Len(a) = Len(b)
       /\ \E p \in 1..Len(a) :
             /\ SubSeq(a, 1, p - 1) = SubSeq(b, 1, p - 1)
             /\ DigitOf(a[p]) < DigitOf(b[p])

\* 2^32 - 2, the largest array index
MaxArrayIndex == << "4", "2", "9", "4", "9", "6", "7", "2", "9", "4" >>

\* a property key that is an array index: the canonical decimal numeral of
\* an integer in 0 .. 2^32 - 2
IsArrayIndex(k) ==
    /\ k # << >>
    /\ \A p \in 1..Len(k) : IsDigit(k[p])
    /\ (Len(k) = 1 \/ k[1] # "0")
    /\ ~NumeralLess(MaxArrayIndex, k)

\* Object.keys(row): the array-index keys in ascending numeric order, then
\* the other keys in the order the properties were created
ObjectKeys(row) ==
    LET keys == [j \in 1..Len(row) |-> row[j].k]
        indices == SelectSeq(keys, IsArrayIndex)
        others == SelectSeq(keys, LAMBDA k : ~IsArrayIndex(k))
        rank(k) == Cardinality({ q \in 1..Len(indices) :
                                    NumeralLess(indices[q], k) })
    IN  [p \in 1..Len(indices) |->
            indices[CHOOSE q \in 1..Len(indices) : rank(indices[q]) = p - 1]]
        \o others

\* row[h] ?? ""
Lookup(row, h) ==
    IF \E j \in 1..Len(row) : row[j].k = h
    THEN row[CHOOSE j \in 1..Len(row) : row[j].k = h].v
    ELSE << >>

\* the characters of the class [\n\r]
IsLineBreak(c) == c \in { "\n", "\r" }

RECURSIVE dropLineBreaks(_)
dropLineBreaks(s) ==
    IF s # << >> /\ IsLineBreak(Head(s)) THEN dropLineBreaks(Tail(s)) ELSE s

\* mutant of replaceLineBreaks: /[\n\r]/g, each line break its own space
replaceEachLineBreak(s) ==
    [p \in 1..Len(s) |-> IF IsLineBreak(s[p]) THEN " " ELSE s[p]]

\* .replace(/[\n\r]+/g, " ")
RECURSIVE replaceLineBreaks(_)
replaceLineBreaks(s) ==
    IF s = << >> THEN << >>
    ELSE IF IsLineBreak(Head(s))
    THEN << " " >> \o replaceLineBreaks(dropLineBreaks(Tail(s)))
    ELSE << Head(s) >> \o replaceLineBreaks(Tail(s))

\* .replace(/,/g, ";")
replaceCommas(s) == [p \in 1..Len(s) |-> IF s[p] = "," THEN ";" ELSE s[p]]

\* one cell of a rendered row
renderCell(v) == replaceCommas(replaceLineBreaks(v))

\* headers.map((h) => ...).join(",")
renderRow(row, headers) ==
    join([j \in 1..Len(headers) |-> renderCell(Lookup(row, headers[j]))],
         << "," >>)

\* server.js lines 190-204: headers, rows and compactCsv of the records
Render(records) ==
    LET trimmed == slice(records, MAX_ROWS)
        headers == ObjectKeys(trimmed[1])
        headerLine == join(headers, << "," >>)
        rows == [i \in 1..Len(trimmed) |-> renderRow(trimmed[i], headers)]
    IN  [headers |-> headers,
         rows |-> rows,
         compactCsv |-> join(<< headerLine >> \o rows, << "\n" >>)]

SchedulePrompt == << "You are Aero, an expert PM coach. ..." >>
AnalysisFallback == << "I could not generate an analysis." >>

\* `Here is the project schedule (CSV):\n\n${compactCsv}`.trim()
UserPrompt(compactCsv) ==
    trim(<< "Here is the project schedule (CSV):", "\n", "\n" >> \o compactCsv)


\* mutant of UploadReject: no try/catch around parse(), so a malformed CSV
\* reaches the handler's catch
UploadRejectParseUncaught(file) ==
    IF ~file.present
    THEN ErrorRes(400, "No file uploaded.", Undefined)
    ELSE IF ~Truthy(OPENAI_API_KEY)
    THEN ErrorRes(500, "Missing OPENAI_API_KEY", Undefined)
    ELSE IF ~file.parses
    THEN ServerErrorRes
    ELSE IF Len(Records(file)) = 0
    THEN ErrorRes(400, "CSV contains no data.", Undefined)
    ELSE NoRes

\* lines 162-186: the response that ends the handler early, or NoRes when
\* the file passes validation
UploadReject(file) ==
    IF ~file.present
    THEN ErrorRes(400, "No file uploaded.", Undefined)
    ELSE IF ~Truthy(OPENAI_API_KEY)
    THEN ErrorRes(500, "Missing OPENAI_API_KEY", Undefined)
    ELSE IF ~file.parses
    THEN ErrorRes(400,
                  "Could not parse CSV. Ensure it's a valid exported schedule.",
                  Undefined)
    ELSE IF Len(Records(file)) = 0
    THEN ErrorRes(400, "CSV contains no data.", Undefined)
    ELSE NoRes

\* upload.single("schedule"): once the multipart body has arrived, req.file
\* is the attached file, or next(err) when it exceeds limits.fileSize
Multer(lane, file) ==
    /\ lanes[lane].pc = "route"
    /\ lanes[lane].req.route = "POST /api/upload-schedule"
    /\ Put(lane,
           IF file.present /\ file.size = "too_large"
           THEN Answer([lanes[lane] EXCEPT !.req.file = file],
                       MiddlewareErrorRes("File too large"))
           ELSE [lanes[lane] EXCEPT !.req.file = file, !.pc = "upload"])

\* the handler from its start to its first await (the completion fetch)
UploadHandler(r) ==
    LET started == [r EXCEPT !.handlerRan = "upload"]
        rejected == UploadReject(r.req.file)
        rendered == Render(Records(r.req.file))
    IN  IF rejected.sent THEN Answer(started, rejected)
        ELSE [started EXCEPT
                 !.sched = rendered,
                 !.completionCalls =
                     Append(@, CompletionRequest(SchedulePrompt,
                                                 UserPrompt(rendered.compactCsv),
                                                 "0.3")),
                 !.pc = "uploadCompletion"]

UploadSchedule(lane) ==
    /\ lanes[lane].pc = "upload"
    /\ Put(lane, UploadHandler(lanes[lane]))

\* `await fetch(...)` of the analysis call settles
AfterAnalysisFetch(r, outcome) ==
    IF outcome.kind = "reject"
    THEN Caught([r EXCEPT !.completionResult = outcome])
    ELSE [r EXCEPT !.completionResult = outcome, !.pc = "uploadCompletionBody"]

UploadCompletionSettles(lane, outcome) ==
    /\ lanes[lane].pc = "uploadCompletion"
    /\ Put(lane, AfterAnalysisFetch(lanes[lane], outcome))

\* the awaited body of the analysis response settles: lines 242-247 for a
\* response that is not ok, lines 250-254 for one that is
AfterAnalysisBody(r, body) ==
    LET seen == [r EXCEPT !.completionResult = WithBody(@, body)]
        rep == ReplyOf(body.content, AnalysisFallback)
    IN  IF ~body.readable THEN Caught(seen)
        ELSE IF ~r.completionResult.ok
        THEN Answer(seen, ErrorRes(500, "OpenAI schedule analysis error",
                                   Str(body.text)))
        ELSE IF rep.threw THEN Caught(seen)
        ELSE Answer(seen, AnalysisRes(rep.value))

UploadCompletionBody(lane, body) ==
    /\ lanes[lane].pc = "uploadCompletionBody"
    /\ body \in CompletionBodies(lanes[lane].completionResult.ok)
    /\ Put(lane, AfterAnalysisBody(lanes[lane], body))

----------------------------------------------------------------------------

Next ==
    \/ \E lane \in Lanes :
         \E route \in RoutesOf(lane), origin \in OriginsOf(lane) :
            Receive(lane, route, origin)
    \/ \E lane \in Lanes : Cors(lane)
    \/ \E lane \in Lanes : \E sent \in BodyInputs : JsonBody(lane, sent)
    \/ \E lane \in Lanes : HealthCheck(lane)
    \/ \E lane \in Lanes : Chat(lane)
    \/ \E lane \in Lanes :
         \E outcome \in FetchSettlements : ChatCompletionSettles(lane, outcome)
    \/ \E lane \in Lanes :
         \E body \in CompletionBodies(TRUE) \cup CompletionBodies(FALSE) :
            ChatCompletionBody(lane, body)
    \/ \E lane \in Lanes :
         \E outcome \in FetchSettlements : ChatTtsSettles(lane, outcome)
    \/ \E lane \in Lanes : \E body \in TtsBodies : ChatTtsBody(lane, body)
    \/ \E lane \in Lanes : \E file \in FileInputs : Multer(lane, file)
    \/ \E lane \in Lanes : UploadSchedule(lane)
    \/ \E lane \in Lanes :
         \E outcome \in FetchSettlements : UploadCompletionSettles(lane, outcome)
    \/ \E lane \in Lanes :
         \E body \in CompletionBodies(TRUE) \cup CompletionBodies(FALSE) :
            UploadCompletionBody(lane, body)
    \/ \E lane \in Lanes : NextRequest(lane)

Spec == Init /\ [][Next]_vars

----------------------------------------------------------------------------
(* Reference definitions the properties are stated with *)

\* s without its leading and trailing whitespace, by positions
TrimSpec(s) ==
    LET solid == { p \in 1..Len(s) : ~IsWhitespace(s[p]) }
    IN  IF solid = { } THEN << >>
        ELSE SubSeq(s, CHOOSE p \in solid : \A q \in solid : p <= q,
                       CHOOSE p \in solid : \A q \in solid : q <= p)

\* the reply a completion body with this content stands for
ExpectedReply(content) ==
    IF content.type = "string" /\ TrimSpec(content.val) # << >>
    THEN TrimSpec(content.val)
    ELSE ReplyFallback

\* the message field is missing, not a string, or holds only whitespace
EmptyIntent(body) ==
    \/ BodyMessage(body).type # "string"
    \/ \A p \in 1..Len(BodyMessage(body).val) :
           IsWhitespace(BodyMessage(body).val[p])

AllowList == { ALLOWED_ORIGINS[i] : i \in 1..Len(ALLOWED_ORIGINS) }

\* s cut at every occurrence of the character sep
RECURSIVE splitOn(_, _)
splitOn(s, sep) ==
    IF Len(s) = 0 THEN << << >> >>
    ELSE IF Len(s) = 1 THEN (IF s[1] = sep THEN << << >>, << >> >> ELSE << s >>)
    ELSE LET half == Len(s) \div 2
             left == splitOn(SubSeq(s, 1, half), sep)
             right == splitOn(SubSeq(s, half + 1, Len(s)), sep)
         IN  SubSeq(left, 1, Len(left) - 1)
             \o << left[Len(left)] \o right[1] >>
             \o Tail(right)

\* a cell with every run of line breaks turned into one space and every
\* comma into a semicolon, by positions
SanitizedSpec(cell) ==
    LET kept(p) == ~(IsLineBreak(cell[p]) /\ p > 1 /\ IsLineBreak(cell[p - 1]))
        idx == SelectSeq([p \in 1..Len(cell) |-> p], kept)
    IN  [q \in 1..Len(idx) |->
            IF IsLineBreak(cell[idx[q]]) THEN " "
            ELSE IF cell[idx[q]] = "," THEN ";"
            ELSE cell[idx[q]]]

Chars(s) == { s[p] : p \in 1..Len(s) }

\* the names of the CSV's columns, left to right
ColumnNames(file) == { HeaderName(file.hpat, j) : j \in 1..file.ncols }

\* the position of a column in the CSV
CsvIndex(file, name) ==
    CHOOSE j \in 1..file.ncols : HeaderName(file.hpat, j) = name

\* the name is the usual decimal numeral of a natural number
IntegerLike(name) ==
    /\ name # << >>
    /\ Chars(name) \subseteq { "0", "1", "2", "3", "4", "5", "6", "7", "8", "9" }
    /\ name[1] = "0" => Len(name) = 1

\* the number such a name denotes
RECURSIVE ValueOf(_)
ValueOf(name) ==
    IF name = << >> THEN 0
    ELSE 10 * ValueOf(SubSeq(name, 1, Len(name) - 1))
         + (CHOOSE d \in 0..9 : Digits(d) = << name[Len(name)] >>)

\* the order JavaScript enumerates an object's keys in: integer-like names
\* first, by value, then the others as they stand in the CSV
KeyBefore(file, a, b) ==
    IF IntegerLike(a) /\ IntegerLike(b) THEN ValueOf(a) < ValueOf(b)
    ELSE IF IntegerLike(a) THEN TRUE
    ELSE IF IntegerLike(b) THEN FALSE
    ELSE CsvIndex(file, a) < CsvIndex(file, b)

\* the upload handler has rendered the CSV and sent it to the completion
\* service, and awaits the analysis
Rendered(r) == r.handlerRan = "upload" /\ r.sched # NoSched

NoOutboundCall(r) == r.completionCalls = << >> /\ r.ttsCalls = << >>

\* the request in flight in some lane
InFlight == { lanes[lane] : lane \in Lanes }

----------------------------------------------------------------------------
(* Properties.  Each holds of every request in flight, whatever the other  *)
(* lane does meanwhile.                                                    *)

\* C1: once the completion has succeeded and a synthesis call was issued, a
\* failed synthesis (non-success status, fetch threw, reading the body threw)
\* still ends in status 200 with the completion's reply and audioBase64 =
\* null; no chat response after a synthesis call is a 500.
C1_SynthesisFailureIsNonFatal ==
    \A r \in InFlight :
        (r.handlerRan = "chat" /\ r.ttsCalls # << >>) =>
            /\ r.res.sent => r.res.status = 200
            /\ r.ttsOutcome \in { "fetch_threw", "not_ok", "body_threw" } =>
                  /\ r.pc = "done"
                  /\ r.res.status = 200
                  /\ r.res.reply = Str(ExpectedReply(r.completionResult.content))
                  /\ r.res.audioBase64 = Null

C1_Witness ==
    \E r \in InFlight :
        /\ r.pc = "done"
        /\ r.ttsOutcome = "body_threw"
        /\ r.completionResult.ok
        /\ r.res.status = 200
        /\ r.res.reply = Str(<< "o", "k" >>)
        /\ r.res.audioBase64 = Null

\* C2 as stated: every chat request whose message is empty, whitespace-only,
\* missing or not a string is answered at once with the greeting and
\* audioBase64 = null, and no outbound call is made.
C2_Original ==
    \A r \in InFlight :
        (r.handlerRan = "chat" /\ EmptyIntent(r.req.body)) =>
            /\ r.pc = "done"
            /\ r.res = ChatRes(Greeting, Null)
            /\ NoOutboundCall(r)

\* C2 amended: the same, when OPENAI_API_KEY is set.
C2_GreetingWhenKeySet ==
    \A r \in InFlight :
        (Truthy(OPENAI_API_KEY) /\ r.handlerRan = "chat"
            /\ EmptyIntent(r.req.body)) =>
            /\ r.pc = "done"
            /\ r.res = ChatRes(Greeting, Null)
            /\ NoOutboundCall(r)

C2_Witness ==
    \E r \in InFlight :
        /\ r.handlerRan = "chat"
        /\ r.req.body.message = Str(<< " ", "\n" >>)
        /\ SynthesisConfigured
        /\ r.res = ChatRes(Greeting, Null)
        /\ NoOutboundCall(r)

\* C3: a chat response carries a non-null audioBase64 only if both synthesis
\* credentials are present and the synthesis call succeeded; with either
\* credential absent no synthesis call is issued and a successful chat
\* response carries audioBase64 = null.
C3_AudioOnlyWhenConfiguredAndOk ==
    \A r \in InFlight :
        r.handlerRan = "chat" =>
            /\ r.res.audioBase64.type = "string" =>
                  /\ ELEVENLABS_API_KEY.val # << >>
                  /\ ELEVENLABS_VOICE_ID.val # << >>
                  /\ r.ttsOutcome = "ok"
            /\ (ELEVENLABS_API_KEY.val = << >> \/ ELEVENLABS_VOICE_ID.val = << >>) =>
                  /\ r.ttsCalls = << >>
                  /\ (r.res.sent /\ r.res.status = 200) => r.res.audioBase64 = Null

C3_Witness ==
    \E r \in InFlight :
        /\ ELEVENLABS_API_KEY.val # << >>
        /\ ELEVENLABS_VOICE_ID.val = << >>
        /\ r.handlerRan = "chat"
        /\ r.completionResult.ok
        /\ r.res.status = 200
        /\ r.res.reply = Str(<< "o", "k" >>)
        /\ r.res.audioBase64 = Null

\* C4 as stated: a request that carries an Origin header is accepted exactly
\* when the origin equals an allow-list entry, a rejected request runs no
\* route handler, and a request without the header is accepted.
C4_Original ==
    \A r \in InFlight :
        r.corsResult # "pending" =>
            /\ r.req.origin.type = "string" =>
                  (r.corsResult = "accepted" <=> r.req.origin.val \in AllowList)
            /\ r.corsResult = "rejected" =>
                  (r.pc = "done" /\ r.handlerRan = "none" /\ NoOutboundCall(r))
            /\ r.req.origin.type = "undefined" => r.corsResult = "accepted"

\* C4 amended: the same for a non-empty Origin header; an empty Origin
\* header is accepted like a missing one.
C4_NonEmptyOriginMustMatch ==
    \A r \in InFlight :
        r.corsResult # "pending" =>
            /\ (r.req.origin.type = "string" /\ r.req.origin.val # << >>) =>
                  (r.corsResult = "accepted" <=> r.req.origin.val \in AllowList)
            /\ r.corsResult = "rejected" =>
                  (r.pc = "done" /\ r.handlerRan = "none" /\ NoOutboundCall(r))
            /\ (r.req.origin.type = "undefined" \/ r.req.origin.val = << >>) =>
                  r.corsResult = "accepted"

C4_Witness ==
    \E r \in InFlight :
        /\ r.req.origin = Str(<< "https://", "evil.example" >>)
        /\ r.req.route = "POST /api/chat"
        /\ r.corsResult = "rejected"
        /\ r.handlerRan = "none"
        /\ r.res.status = 500

\* C5 as stated: a body { text: s } without a message field is handled as
\* { message: s }, so with the completion key set a text that is non-empty
\* after trimming reaches the completion service as the user message.
C5_TextAlias ==
    \A r \in InFlight :
        (Truthy(OPENAI_API_KEY) /\ r.handlerRan = "chat"
            /\ r.req.body.present /\ r.req.body.message = Undefined
            /\ r.req.body.text.type = "string"
            /\ TrimSpec(r.req.body.text.val) # << >>) =>
            /\ Len(r.completionCalls) = 1
            /\ r.completionCalls[1].messages[2].content
                   = TrimSpec(r.req.body.text.val)

\* C6: whatever the completion service receives for a chat request is one
\* system entry followed by one user entry whose content is the trimmed
\* message, and with the key set exactly that is sent, once, for every
\* message that is non-empty after trimming.
C6_SystemThenTrimmedUser ==
    \A r \in InFlight :
        r.handlerRan = "chat" =>
            /\ r.completionCalls # << >> =>
                  /\ Len(r.completionCalls) = 1
                  /\ Len(r.completionCalls[1].messages) = 2
                  /\ r.completionCalls[1].messages[1].role = "system"
                  /\ r.completionCalls[1].messages[2].role = "user"
                  /\ BodyMessage(r.req.body).type = "string"
                  /\ r.completionCalls[1].messages[2].content
                         = TrimSpec(BodyMessage(r.req.body).val)
                  /\ r.completionCalls[1].messages[2].content # << >>
            /\ (Truthy(OPENAI_API_KEY) /\ ~EmptyIntent(r.req.body)) =>
                  Len(r.completionCalls) = 1

C6_Witness ==
    \E r \in InFlight :
        /\ r.handlerRan = "chat"
        /\ r.req.body.message = Str(<< " ", "h", "\n" >>)
        /\ Len(r.completionCalls) = 1
        /\ r.completionCalls[1].messages[2].content = << "h" >>

\* C7 as stated: an uploaded CSV that fails to parse is answered 400 with
\* the parse message, one that parses to zero data rows 400 with the no-data
\* message, and neither issues a completion call.
C7_Original ==
    \A r \in InFlight :
        (r.handlerRan = "upload" /\ r.req.file.present) =>
            /\ ~r.req.file.parses =>
                  /\ r.pc = "done"
                  /\ r.res.status = 400
                  /\ r.res.error
                       = "Could not parse CSV. Ensure it's a valid exported schedule."
                  /\ NoOutboundCall(r)
            /\ (r.req.file.parses /\ r.req.file.nrows = 0) =>
                  /\ r.pc = "done"
                  /\ r.res.status = 400
                  /\ r.res.error = "CSV contains no data."
                  /\ NoOutboundCall(r)

\* C7 amended: the same, when OPENAI_API_KEY is set.
C7_BadCsvIs400WhenKeySet ==
    \A r \in InFlight :
        (r.handlerRan = "upload" /\ r.req.file.present /\ Truthy(OPENAI_API_KEY)) =>
            /\ ~r.req.file.parses =>
                  /\ r.pc = "done"
                  /\ r.res.status = 400
                  /\ r.res.error
                       = "Could not parse CSV. Ensure it's a valid exported schedule."
                  /\ NoOutboundCall(r)
            /\ (r.req.file.parses /\ r.req.file.nrows = 0) =>
                  /\ r.pc = "done"
                  /\ r.res.status = 400
                  /\ r.res.error = "CSV contains no data."
                  /\ NoOutboundCall(r)

C7_Witness ==
    \E r \in InFlight :
        /\ r.handlerRan = "upload"
        /\ r.req.file.parses
        /\ r.req.file.nrows = 0
        /\ r.res.status = 400
        /\ r.res.error = "CSV contains no data."

\* the lines of the rendered text
LinesOf(r) == splitOn(r.sched.compactCsv, "\n")

\* the field of a rendered line that belongs to the CSV's first column, which
\* numbers the rows
RowNumberField(r, line) ==
    splitOn(line, ",")[CHOOSE p \in 1..Len(r.sched.headers) :
                          r.sched.headers[p] = HeaderName(r.req.file.hpat, 1)]

\* C8 as stated: the rendered text of a CSV with n >= 1 data rows has one
\* header line and then min(n, 120) data lines, the first min(n, 120) rows in
\* their order.
C8_Original ==
    \A r \in InFlight :
        Rendered(r) =>
            LET lines == LinesOf(r)
                kept == Min(r.req.file.nrows, MAX_ROWS)
            IN  /\ Len(lines) = 1 + kept
                /\ \A i \in 1..kept : RowNumberField(r, lines[i + 1]) = Digits(i)

\* C8 amended: the same for a CSV none of whose column names holds a line
\* feed; the header line is the column names joined by commas.
C8_HeaderThenFirstRows ==
    \A r \in InFlight :
        (Rendered(r) /\ \A name \in ColumnNames(r.req.file) : "\n" \notin Chars(name)) =>
            LET lines == LinesOf(r)
                kept == Min(r.req.file.nrows, MAX_ROWS)
            IN  /\ Len(lines) = 1 + kept
                /\ lines[1] = join(r.sched.headers, << "," >>)
                /\ { r.sched.headers[p] : p \in 1..Len(r.sched.headers) }
                       = ColumnNames(r.req.file)
                /\ \A i \in 1..kept : RowNumberField(r, lines[i + 1]) = Digits(i)

C8_Witness ==
    \E r \in InFlight :
        /\ Rendered(r)
        /\ r.req.file.nrows = MAX_ROWS + 1
        /\ r.req.file.hpat = 3
        /\ r.req.file.ncols = 2
        /\ Len(LinesOf(r)) = MAX_ROWS + 1
        /\ LinesOf(r)[MAX_ROWS + 1] = << "a", " ", "b", ",", "1", "2", "0" >>

\* C9: every rendered data line has one field per column of the first kept
\* row, in the order that row's keys are enumerated in (the header line's
\* order): it holds no line break and exactly (columns - 1) commas, and each
\* field is its cell with every run of line breaks turned into one space and
\* every comma into a semicolon.
C9_CellsSanitized ==
    \A r \in InFlight :
        Rendered(r) =>
            LET file == r.req.file
                headers == r.sched.headers
            IN  /\ Len(headers) = file.ncols
                /\ { headers[p] : p \in 1..Len(headers) } = ColumnNames(file)
                /\ \A p, q \in 1..Len(headers) :
                       p < q => KeyBefore(file, headers[p], headers[q])
                /\ Len(r.sched.rows) = Min(file.nrows, MAX_ROWS)
                /\ \A i \in 1..Len(r.sched.rows) :
                       LET fields == splitOn(r.sched.rows[i], ",")
                       IN  /\ Chars(r.sched.rows[i]) \cap { "\n", "\r" } = { }
                           /\ Len(fields) = Len(headers)
                           /\ \A p \in 1..Len(headers) :
                                  fields[p] = SanitizedSpec(
                                      CellValue(i, CsvIndex(file, headers[p])))

C9_Witness ==
    \E r \in InFlight :
        /\ Rendered(r)
        /\ r.req.file.ncols = 3
        /\ r.req.file.nrows = 2
        /\ r.sched.headers = << << "9" >>, << "1", "0" >>, << "i", "d" >> >>
        /\ CellValue(2, 3) = << ",", "\n", "\n", "," >>
        /\ r.sched.rows[2] = << ";", " ", ";", ",", " ", "a", ",", "2" >>

\* C10 as stated: a non-success status from the completion service ends the
\* chat request with status 500 carrying the raw upstream body, after exactly
\* one completion call and no synthesis call.
C10_Original ==
    \A r \in InFlight :
        (r.handlerRan = "chat" /\ r.completionResult.kind = "response"
            /\ ~r.completionResult.ok) =>
            /\ Len(r.completionCalls) = 1
            /\ r.ttsCalls = << >>
            /\ r.res.sent => r.res.status = 500
            /\ r.completionResult.read =>
                  /\ r.pc = "done"
                  /\ r.res.status = 500
                  /\ r.res.detail = Str(r.completionResult.text)

\* C10 amended: the same, the raw upstream body being carried whenever it
\* could be read; when reading it throws, the handler's catch answers 500
\* "Server error".
C10_AbortOnUpstreamError ==
    \A r \in InFlight :
        (r.handlerRan = "chat" /\ r.completionResult.kind = "response"
            /\ ~r.completionResult.ok) =>
            /\ Len(r.completionCalls) = 1
            /\ r.ttsCalls = << >>
            /\ r.res.sent => r.res.status = 500
            /\ r.completionResult.read =>
                  /\ r.pc = "done"
                  /\ r.res.status = 500
                  /\ r.completionResult.readable =>
                        /\ r.res.error = "OpenAI API failed"
                        /\ r.res.detail = Str(r.completionResult.text)
                  /\ ~r.completionResult.readable => r.res.error = "Server error"

C10_Witness ==
    \E r \in InFlight :
        /\ r.handlerRan = "chat"
        /\ SynthesisConfigured
        /\ r.completionResult.kind = "response"
        /\ ~r.completionResult.ok
        /\ r.completionResult.read
        /\ r.completionResult.readable
        /\ r.res.status = 500
        /\ r.res.detail = Str(UpstreamErrorBody)
        /\ Len(r.completionCalls) = 1
        /\ r.ttsCalls = << >>

====
